---- MODULE Spec2Model ----
(***************************************************************************)
(* A model of src/repostats.py (class RepoStats): the time-series          *)
(* reconciler (get_views / get_clones) and the ranked-list reconciler      *)
(* (get_top_referral_sources / get_top_referral_paths).                    *)
(*                                                                         *)
(* Calendar dates are day numbers, timestamps are hours since day 0 (UTC). *)
(* A Python dict is an insertion-ordered sequence of [key, val] entries.   *)
(* A dict key is <<kind, day>>: kind "date" for a datetime.date object     *)
(* (what _get_counts builds, line 111) and kind "Timestamp" for a          *)
(* pandas.Timestamp (what read_csv(parse_dates=...).to_dict builds, line   *)
(* 137).  The two kinds hash differently in Python, so a dict never treats *)
(* a date and a Timestamp of the same day as the same key.                 *)
(* A time-series DataFrame is a sequence of rows [index, total, unique].   *)
(* A ranked DataFrame is [cols, rows]: cols the column names in order, and *)
(* each row a function from the column names to a cell, <<v>> for a value  *)
(* and <<>> for NaN.                                                        *)
(* A file is [status, cols, rows], status one of "missing", "corrupt",     *)
(* "csv".                                                                   *)
(***************************************************************************)
EXTENDS Integers, Sequences, FiniteSets, TLC

VARIABLES
    metric,     \* the metric type whose two files this behaviour follows
    today,      \* the current UTC calendar day
    cumfile,    \* the cumulative file at the path given to get_*
    snapfile,   \* the snapshot file of the metric in the snapshot folder
    pc,         \* "idle", or "returned": get_views/get_clones has returned
    last,       \* what the last get_* call saw and did
    prev,       \* the same for the call before it
    runs,       \* number of get_* calls so far
    md          \* inputs and output of a stand-alone _merge_dict call

vars == <<metric, today, cumfile, snapfile, pc, last, prev, runs, md>>

----------------------------------------------------------------------------
\* Bounds of the model.
MaxRuns == 2
MaxEvents == 2
MaxItems == 2
MaxDictLen == 2
FirstDay == 20

\* Program constants.
WindowBack == 13
LastWindow == 14
HoursPerDay == 24

\* Input alphabets.
SeriesMetrics == {"views", "clones"}
RankedMetrics == {"referral_sources", "referral_paths"}
RunDays == {FirstDay, FirstDay + 15}

Range(s) == {s[i] : i \in 1..Len(s)}
SeqsUpTo(S, n) == UNION {[1..k -> S] : k \in 0..n}

NoFile == [status |-> "missing", cols |-> <<>>, rows |-> <<>>]
Corrupt == [status |-> "corrupt", cols |-> <<>>, rows |-> <<>>]
Csv(cols, rows) == [status |-> "csv", cols |-> cols, rows |-> rows]

----------------------------------------------------------------------------
\* Python dict operations.
DictHas(d, k) == \E i \in 1..Len(d) : d[i].key = k
DictGet(d, k) == d[CHOOSE i \in 1..Len(d) : d[i].key = k].val
DictSet(d, k, v) ==
    IF DictHas(d, k)
    THEN [i \in 1..Len(d) |-> IF d[i].key = k THEN [key |-> k, val |-> v] ELSE d[i]]
    ELSE Append(d, [key |-> k, val |-> v])

ZeroRow == [total |-> 0, unique |-> 0]

\* pd.to_datetime(item["timestamp"], utc=True).date()
DateOf(ts) == ts \div HoursPerDay

\* The loop over data[metric_type] of _get_counts.
RECURSIVE CountEvents(_, _)
CountEvents(events, counts) ==
    IF events = <<>> THEN counts
    ELSE LET item == Head(events)
             date == <<"date", DateOf(item.timestamp)>>
             c0 == IF DictHas(counts, date) THEN counts ELSE DictSet(counts, date, ZeroRow)
             cur == DictGet(c0, date)
             c1 == DictSet(c0, date, [total |-> cur.total + item.count,
                                      unique |-> cur.unique + item.uniques])
         IN CountEvents(Tail(events), c1)

\* The loop over date_range of _get_counts.
RECURSIVE FillMissing(_, _, _)
FillMissing(counts, d, end) ==
    IF d > end THEN counts
    ELSE FillMissing(IF DictHas(counts, <<"date", d>>) THEN counts
                     ELSE DictSet(counts, <<"date", d>>, ZeroRow), d + 1, end)

\* A densification that starts one day late.
get_counts_short(events, now) ==
    FillMissing(CountEvents(events, <<>>), now - WindowBack + 1, now)

get_counts(events, now) ==
    FillMissing(CountEvents(events, <<>>), now - WindowBack, now)

----------------------------------------------------------------------------
\* pandas operations on a time-series DataFrame.

\* DataFrame.from_dict(orient="index"): one row per dict entry, labelled by its key.
FromDict(d) ==
    [i \in 1..Len(d) |-> [index |-> d[i].key, total |-> d[i].val.total,
                          unique |-> d[i].val.unique]]

\* pd.to_datetime(df.index): a date and a Timestamp both become the day's datetime.
ToDatetimeIndex(df) ==
    [i \in 1..Len(df) |-> [index |-> df[i].index[2], total |-> df[i].total,
                           unique |-> df[i].unique]]

RECURSIVE InsertByIndex(_, _)
InsertByIndex(sorted, row) ==
    IF sorted = <<>> THEN <<row>>
    ELSE IF sorted[Len(sorted)].index <= row.index THEN Append(sorted, row)
    ELSE Append(InsertByIndex(SubSeq(sorted, 1, Len(sorted) - 1), row), sorted[Len(sorted)])

RECURSIVE SortIndex(_)
SortIndex(df) ==
    IF df = <<>> THEN <<>>
    ELSE InsertByIndex(SortIndex(SubSeq(df, 1, Len(df) - 1)), df[Len(df)])

\* df.last('14D'): the rows later than the last index minus 14 days.
Last14D(df) ==
    IF df = <<>> THEN df
    ELSE SelectSeq(df, LAMBDA r : r.index > df[Len(df)].index - LastWindow)

RECURSIVE MinFrom(_, _, _)
MinFrom(df, i, m) ==
    IF i > Len(df) THEN m
    ELSE MinFrom(df, i + 1, IF df[i].index < m THEN df[i].index ELSE m)

RECURSIVE MaxFrom(_, _, _)
MaxFrom(df, i, m) ==
    IF i > Len(df) THEN m
    ELSE MaxFrom(df, i + 1, IF df[i].index > m THEN df[i].index ELSE m)

\* dataframe.index.min() and dataframe.index.max()
MinIndex(df) == MinFrom(df, 2, df[1].index)
MaxIndex(df) == MaxFrom(df, 2, df[1].index)

RECURSIVE SumTotal(_)
SumTotal(rows) == IF rows = <<>> THEN 0 ELSE Head(rows).total + SumTotal(Tail(rows))

RECURSIVE SumUnique(_)
SumUnique(rows) == IF rows = <<>> THEN 0 ELSE Head(rows).unique + SumUnique(Tail(rows))

\* The row of one group: the sum of the group's rows, column by column.
GroupRow(d, rows) == [index |-> d, total |-> SumTotal(rows), unique |-> SumUnique(rows)]

RECURSIVE GroupFrom(_, _, _)
GroupFrom(df, d, hi) ==
    IF d > hi THEN <<>>
    ELSE LET rows == SelectSeq(df, LAMBDA r : r.index = d)
         IN (IF rows = <<>> THEN <<>> ELSE <<GroupRow(d, rows)>>) \o GroupFrom(df, d + 1, hi)

\* A grouping that keeps the last row of each index instead of adding the rows up.
GroupByLast(df) ==
    LET RECURSIVE Pick(_)
        Pick(i) == IF i > Len(df) THEN <<>>
                   ELSE (IF \A j \in (i + 1)..Len(df) : df[j].index # df[i].index
                         THEN <<df[i]>> ELSE <<>>) \o Pick(i + 1)
    IN SortIndex(Pick(1))

\* dataframe.groupby(dataframe.index).sum(): one row per distinct index, ascending,
\* the rows of an index added up.
GroupBySum(df) == IF df = <<>> THEN <<>> ELSE GroupFrom(df, MinIndex(df), MaxIndex(df))

\* A reindex that fills nothing in.
ReindexNoFill(df, start, end) == df

\* dataframe.reindex(pd.date_range(start, end, freq='D'), fill_value=0)
Reindex(df, start, end) ==
    [k \in 1..(end - start + 1) |->
        LET d == start + k - 1
        IN IF \E i \in 1..Len(df) : df[i].index = d
           THEN df[CHOOSE i \in 1..Len(df) : df[i].index = d]
           ELSE [index |-> d, total |-> 0, unique |-> 0]]

----------------------------------------------------------------------------
\* RepoStats._merge_dict(old_data, new_data, metric_type)
RECURSIVE MergeLoop(_, _, _)
MergeLoop(old_data, new_data, i) ==
    IF i > Len(new_data) THEN old_data
    ELSE LET key == new_data[i].key
             new == new_data[i].val
         IN IF ~DictHas(old_data, key)
            THEN MergeLoop(DictSet(old_data, key, new), new_data, i + 1)
            ELSE IF \/ new.total > DictGet(old_data, key).total
                    \/ new.unique > DictGet(old_data, key).unique
                 THEN MergeLoop(DictSet(old_data, key, new), new_data, i + 1)
                 ELSE MergeLoop(old_data, new_data, i + 1)

\* A merge that takes the larger value field by field.
merge_dict_fieldmax(old_data, new_data) ==
    LET Max(a, b) == IF a > b THEN a ELSE b
        RECURSIVE Loop(_, _)
        Loop(acc, i) ==
            IF i > Len(new_data) THEN acc
            ELSE LET key == new_data[i].key
                     new == new_data[i].val
                 IN Loop(DictSet(acc, key,
                            IF DictHas(acc, key)
                            THEN [total |-> Max(DictGet(acc, key).total, new.total),
                                  unique |-> Max(DictGet(acc, key).unique, new.unique)]
                            ELSE new), i + 1)
    IN Loop(old_data, 1)

merge_dict(old_data, new_data) == MergeLoop(old_data, new_data, 1)

\* pd.read_csv(file_path, index_col="_date", parse_dates=["_date"]).to_dict(orient="index")
\* raises when the file is missing or unparseable; else a Timestamp-keyed dict.
ReadSeriesRaises(file) == file.status # "csv"
ReadSeriesDict(file) ==
    [i \in 1..Len(file.rows) |->
        [key |-> <<"Timestamp", file.rows[i].index>>,
         val |-> [total |-> file.rows[i].total, unique |-> file.rows[i].unique]]]

\* RepoStats._create_snapshot_dataframe(data, metric_type): the frame it writes and returns.
create_snapshot_dataframe(data) == Last14D(SortIndex(ToDatetimeIndex(FromDict(data))))

\* RepoStats._create_cumulative_dataframe(data, metric_type, file_path)
create_cumulative_dataframe(data, file) ==
    LET dataframe == IF ReadSeriesRaises(file)
                     THEN FromDict(data)
                     ELSE FromDict(merge_dict(ReadSeriesDict(file), data))
        utc == ToDatetimeIndex(dataframe)
    IN CHOOSE dense \in {Reindex(grouped, MinIndex(grouped), MaxIndex(grouped)) :
                            grouped \in {GroupBySum(utc)}} : TRUE

----------------------------------------------------------------------------
\* pandas operations on a ranked DataFrame.
NaN == <<>>
IsNaN(cell) == cell = <<>>

Columns(metric_type) ==
    IF metric_type = "referral_sources"
    THEN <<"referrer", "count", "uniques">>
    ELSE <<"path", "title", "count", "uniques">>

\* The subset= column of drop_duplicates.
KeyColumn(metric_type) == IF metric_type = "referral_sources" THEN "referrer" ELSE "path"

\* pd.DataFrame(data, columns=columns)
DataFrame(data, columns) ==
    [cols |-> columns,
     rows |-> [i \in 1..Len(data) |-> [c \in Range(columns) |-> <<data[i][c]>>]]]

\* pd.read_csv(file_path, index_col=0) followed by reset_index(drop=True): the first
\* column of the file becomes the index, and the index is then dropped.
ReadRankedRaises(file) == file.status # "csv"
ReadRankedFrame(file) ==
    LET kept == Tail(file.cols)
    IN [cols |-> kept,
        rows |-> [i \in 1..Len(file.rows) |-> [c \in Range(kept) |-> file.rows[i][c]]]]

\* pd.concat([a, b]): the columns of a, then those of b that a lacks; NaN where a
\* frame has no such column.
Concat(a, b) ==
    LET cols == a.cols \o SelectSeq(b.cols, LAMBDA c : c \notin Range(a.cols))
        Widen(row, have) == [c \in Range(cols) |-> IF c \in Range(have) THEN row[c] ELSE NaN]
    IN [cols |-> cols,
        rows |-> [i \in 1..Len(a.rows) |-> Widen(a.rows[i], a.cols)]
                 \o [i \in 1..Len(b.rows) |-> Widen(b.rows[i], b.cols)]]

\* drop_duplicates(subset=[key], keep="last"); NaN keys count as equal.
DropDuplicatesLast(df, key) ==
    LET Keep(i) == \A j \in (i + 1)..Len(df.rows) : df.rows[j][key] # df.rows[i][key]
        RECURSIVE Pick(_)
        Pick(i) == IF i > Len(df.rows) THEN <<>>
                   ELSE (IF Keep(i) THEN <<df.rows[i]>> ELSE <<>>) \o Pick(i + 1)
    IN [cols |-> df.cols, rows |-> Pick(1)]

\* a precedes b in a descending sort on "count" with NaN last
CountBefore(a, b) ==
    \/ IsNaN(b["count"])
    \/ ~IsNaN(a["count"]) /\ a["count"][1] >= b["count"][1]

Orderings(n) == {p \in [1..n -> 1..n] : \A i, j \in 1..n : i # j => p[i] # p[j]}

\* sort_values("count", ascending=False).reset_index(drop=True): the default kind,
\* quicksort, fixes no order among equal counts; NaN counts go last in their
\* original order.
SortValuesCountDesc(df) ==
    LET n == Len(df.rows)
        Ok(p) == \A i, j \in 1..n : i < j =>
                    /\ CountBefore(df.rows[p[i]], df.rows[p[j]])
                    /\ (IsNaN(df.rows[p[i]]["count"]) /\ IsNaN(df.rows[p[j]]["count"])
                            => p[i] < p[j])
    IN {[cols |-> df.cols, rows |-> [i \in 1..n |-> df.rows[p[i]]]] :
            p \in {q \in Orderings(n) : Ok(q)}}

\* RepoStats._create_referral_snapshot(data, metric_type): the frame it writes and returns.
create_referral_snapshot(data, metric_type) == DataFrame(data, Columns(metric_type))

\* RepoStats._create_referral_dataframe(data, metric_type, file_path): the frames it
\* may write and return.
create_referral_dataframe(data, metric_type, file) ==
    LET dataframe == DataFrame(data, Columns(metric_type))
    IN IF ReadRankedRaises(file)
       THEN {dataframe}
       ELSE LET old_data == ReadRankedFrame(file)
                combined == DropDuplicatesLast(Concat(old_data, dataframe),
                                               KeyColumn(metric_type))
            IN SortValuesCountDesc(combined)

----------------------------------------------------------------------------
\* What the endpoints may answer.

\* Entries of the "views"/"clones" list: one stamped at 12:00 UTC of the current
\* day, one at 00:00 UTC of the first day of the window.
Events(now) ==
    {[timestamp |-> now * HoursPerDay + 12, count |-> 2, uniques |-> 1],
     [timestamp |-> (now - WindowBack) * HoursPerDay, count |-> 1, uniques |-> 1]}

\* Entries of the referrers list and of the paths list.
Items(metric_type) ==
    IF metric_type = "referral_sources"
    THEN {[referrer |-> "a", count |-> 10, uniques |-> 3],
          [referrer |-> "b", count |-> 5, uniques |-> 2]}
    ELSE {[path |-> "a", title |-> "t", count |-> 10, uniques |-> 3],
          [path |-> "b", title |-> "t", count |-> 5, uniques |-> 2]}

\* A response: ok is FALSE for a non-2xx status or a transport error.
Failure == [ok |-> FALSE, body |-> <<>>]
\* The traffic endpoints list their entries in chronological order.
Chronological(b) == \A i \in 1..(Len(b) - 1) : b[i].timestamp <= b[i + 1].timestamp
SeriesResponses(now) ==
    {Failure} \cup {[ok |-> TRUE, body |-> b] :
                        b \in {c \in SeqsUpTo(Events(now), MaxEvents) : Chronological(c)}}
RankedResponses(metric_type) ==
    {Failure} \cup {[ok |-> TRUE, body |-> b] : b \in SeqsUpTo(Items(metric_type), MaxItems)}

\* RepoStats._make_request: requests.get, then response.raise_for_status()
make_request_raises(resp) == ~resp.ok

SeriesColumns(metric_type) == <<"_date", "total_" \o metric_type, "unique_" \o metric_type>>

Raised == [raised |-> TRUE, wrote_snapshot |-> FALSE, wrote_cumulative |-> FALSE,
           counts |-> <<>>, snapshot_df |-> <<>>, cumulative_df |-> <<>>]

\* A fetch that lets the failure to read the cumulative file reach the caller.
get_series_no_fallback(resp, metric_type, now, file) ==
    IF make_request_raises(resp) \/ ReadSeriesRaises(file) THEN Raised
    ELSE [raised |-> FALSE, wrote_snapshot |-> TRUE, wrote_cumulative |-> FALSE,
          counts |-> get_counts(resp.body, now),
          snapshot_df |-> create_snapshot_dataframe(get_counts(resp.body, now)),
          cumulative_df |-> create_cumulative_dataframe(get_counts(resp.body, now), file)]

\* A fetch that writes the snapshot file before it looks at the response status.
get_series_snapshot_first(resp, metric_type, now, file) ==
    IF make_request_raises(resp)
    THEN [Raised EXCEPT !.wrote_snapshot = TRUE]
    ELSE [raised |-> FALSE, wrote_snapshot |-> TRUE, wrote_cumulative |-> FALSE,
          counts |-> get_counts(resp.body, now),
          snapshot_df |-> create_snapshot_dataframe(get_counts(resp.body, now)),
          cumulative_df |-> create_cumulative_dataframe(get_counts(resp.body, now), file)]

\* RepoStats.get_views / get_clones: what one call does, given the response.
get_series(resp, metric_type, now, file) ==
    IF make_request_raises(resp) THEN Raised
    ELSE CHOOSE o \in
            {[raised |-> FALSE, wrote_snapshot |-> TRUE, wrote_cumulative |-> FALSE,
              counts |-> counts,
              snapshot_df |-> create_snapshot_dataframe(counts),
              cumulative_df |-> create_cumulative_dataframe(counts, file)] :
                counts \in {get_counts(resp.body, now)}} : TRUE

\* RepoStats.get_top_referral_sources / get_top_referral_paths: what one call may do.
get_top_referral(resp, metric_type, file) ==
    IF make_request_raises(resp) THEN {Raised}
    ELSE {[raised |-> FALSE, wrote_snapshot |-> TRUE, wrote_cumulative |-> TRUE,
           counts |-> <<>>,
           snapshot_df |-> create_referral_snapshot(resp.body, metric_type),
           cumulative_df |-> df] :
            df \in create_referral_dataframe(resp.body, metric_type, file)}

----------------------------------------------------------------------------
\* The state machine: one behaviour follows the two files of one metric type.

NoCall == [op |-> "none", ok |-> FALSE, raised |-> FALSE, body |-> <<>>, now |-> 0,
           prior |-> NoFile, snap_before |-> NoFile, counts |-> <<>>,
           cumulative_df |-> <<>>]

NoPrev == [valid |-> FALSE, now |-> 0, prior |-> NoFile, counts |-> <<>>,
           cumulative_df |-> <<>>]

NoMerge == [old |-> <<>>, new |-> <<>>, out |-> <<>>, done |-> FALSE]

\* The cumulative file one earlier successful run has left behind.
EarlierFile(metric_type) ==
    IF metric_type \in SeriesMetrics
    THEN Csv(SeriesColumns(metric_type),
             create_cumulative_dataframe(
                 get_counts(<<[timestamp |-> FirstDay * HoursPerDay, count |-> 3,
                               uniques |-> 3]>>, FirstDay), NoFile))
    ELSE LET df == DataFrame(<<[referrer |-> "a", path |-> "a", title |-> "t",
                                count |-> 5, uniques |-> 2],
                               [referrer |-> "b", path |-> "b", title |-> "t",
                                count |-> 5, uniques |-> 2]>>, Columns(metric_type))
         IN Csv(df.cols, df.rows)

Init ==
    /\ metric \in SeriesMetrics \cup RankedMetrics
    /\ today = FirstDay
    /\ cumfile \in {NoFile, Corrupt, EarlierFile(metric)}
    /\ snapfile = NoFile
    /\ pc = "idle"
    /\ last = NoCall
    /\ prev = NoPrev
    /\ runs = 0
    /\ md = NoMerge

Called(op, resp, o) ==
    [op |-> op, ok |-> resp.ok, raised |-> o.raised, body |-> resp.body, now |-> today,
     prior |-> cumfile, snap_before |-> snapfile, counts |-> o.counts,
     cumulative_df |-> o.cumulative_df]

Before ==
    [valid |-> last.op \in {"get_views", "get_clones"} /\ ~last.raised,
     now |-> last.now, prior |-> last.prior, counts |-> last.counts,
     cumulative_df |-> IF last.op \in {"get_views", "get_clones"}
                       THEN last.cumulative_df ELSE <<>>]

\* One call of a time-series fetch.
SeriesCall(op, metric_type) ==
    /\ metric = metric_type
    /\ pc = "idle"
    /\ runs < MaxRuns
    /\ \E resp \in SeriesResponses(today) :
        \E o \in {get_series(resp, metric_type, today, cumfile)} :
           /\ last' = Called(op, resp, o)
           /\ snapfile' = IF o.wrote_snapshot
                          THEN Csv(SeriesColumns(metric_type), o.snapshot_df)
                          ELSE snapfile
           /\ cumfile' = IF o.wrote_cumulative
                         THEN Csv(SeriesColumns(metric_type), o.cumulative_df)
                         ELSE cumfile
           /\ pc' = IF o.raised THEN "idle" ELSE "returned"
    /\ prev' = Before
    /\ runs' = runs + 1
    /\ UNCHANGED <<metric, today, md>>

get_views == SeriesCall("get_views", "views")

get_clones == SeriesCall("get_clones", "clones")

\* One call of a ranked fetch.
RankedCall(op, metric_type) ==
    /\ metric = metric_type
    /\ pc = "idle"
    /\ runs < MaxRuns
    /\ \E resp \in RankedResponses(metric_type) :
        \E o \in get_top_referral(resp, metric_type, cumfile) :
           /\ last' = Called(op, resp, o)
           /\ snapfile' = IF o.wrote_snapshot
                          THEN Csv(o.snapshot_df.cols, o.snapshot_df.rows)
                          ELSE snapfile
           /\ cumfile' = IF o.wrote_cumulative
                         THEN Csv(o.cumulative_df.cols, o.cumulative_df.rows)
                         ELSE cumfile
    /\ runs' = runs + 1
    /\ UNCHANGED <<metric, today, pc, prev, md>>

get_top_referral_sources == RankedCall("get_top_referral_sources", "referral_sources")

get_top_referral_paths == RankedCall("get_top_referral_paths", "referral_paths")

\* The caller of get_views / get_clones writes the returned cumulative_df to the
\* cumulative path, index "_date" included, as timezone-naive dates.
save_cumulative ==
    /\ pc = "returned"
    /\ cumfile' = Csv(SeriesColumns(metric), last.cumulative_df)
    /\ pc' = "idle"
    /\ UNCHANGED <<metric, today, snapfile, last, prev, runs, md>>

\* The calendar moves on to a later day of a run (the ranked fetches never read
\* the date).
Tick ==
    /\ pc = "idle"
    /\ metric \in SeriesMetrics
    /\ \E d \in RunDays : d > today /\ today' = d
    /\ UNCHANGED <<metric, cumfile, snapfile, pc, last, prev, runs, md>>

Next ==
    \/ get_views
    \/ get_clones
    \/ get_top_referral_sources
    \/ get_top_referral_paths
    \/ save_cumulative
    \/ Tick

Spec == Init /\ [][Next]_vars

----------------------------------------------------------------------------
\* _merge_dict on its own: any two dicts over a few keys, merged once.

MergeKeys == {<<"date", 1>>, <<"date", 2>>, <<"Timestamp", 1>>}
MergeRows == {[total |-> 1, unique |-> 2], [total |-> 2, unique |-> 1],
              [total |-> 2, unique |-> 2]}

Dicts ==
    {d \in SeqsUpTo([key : MergeKeys, val : MergeRows], MaxDictLen) :
        \A i, j \in 1..Len(d) : i # j => d[i].key # d[j].key}

InitMerge ==
    /\ metric = "views"
    /\ today = FirstDay
    /\ cumfile = NoFile
    /\ snapfile = NoFile
    /\ pc = "idle"
    /\ last = NoCall
    /\ prev = NoPrev
    /\ runs = 0
    /\ md \in {[old |-> o, new |-> n, out |-> <<>>, done |-> FALSE] : o, n \in Dicts}

MergeOnce ==
    /\ ~md.done
    /\ md' = [md EXCEPT !.out = merge_dict(md.old, md.new), !.done = TRUE]
    /\ UNCHANGED <<metric, today, cumfile, snapfile, pc, last, prev, runs>>

SpecMergeDict == InitMerge /\ [][MergeOnce]_vars

----------------------------------------------------------------------------
\* Properties.

SeriesDone == last.op \in {"get_views", "get_clones"} /\ ~last.raised
RankedDone ==
    last.op \in {"get_top_referral_sources", "get_top_referral_paths"} /\ ~last.raised
Merged == last.prior.status = "csv"

HasIndex(df, d) == \E i \in 1..Len(df) : df[i].index = d
RowAt(df, d) == df[CHOOSE i \in 1..Len(df) : df[i].index = d]
InCounts(counts, d) == DictHas(counts, <<"date", d>>)
CountsAt(counts, d) == DictGet(counts, <<"date", d>>)

RECURSIVE CountOn(_, _)
CountOn(events, d) ==
    IF events = <<>> THEN 0
    ELSE (IF Head(events).timestamp \div HoursPerDay = d THEN Head(events).count ELSE 0)
         + CountOn(Tail(events), d)

RECURSIVE UniquesOn(_, _)
UniquesOn(events, d) ==
    IF events = <<>> THEN 0
    ELSE (IF Head(events).timestamp \div HoursPerDay = d THEN Head(events).uniques ELSE 0)
         + UniquesOn(Tail(events), d)

InWindow(events, now) ==
    \A i \in 1..Len(events) :
        /\ events[i].timestamp \div HoursPerDay >= now - 13
        /\ events[i].timestamp \div HoursPerDay <= now

NotBelow(old_rows, new_rows) ==
    \A i \in 1..Len(old_rows) :
        /\ HasIndex(new_rows, old_rows[i].index)
        /\ RowAt(new_rows, old_rows[i].index).total >= old_rows[i].total
        /\ RowAt(new_rows, old_rows[i].index).unique >= old_rows[i].unique

C1_PerCall ==
    (SeriesDone /\ Merged) =>
        \A i \in 1..Len(last.prior.rows) :
            LET t == last.prior.rows[i]
            IN InCounts(last.counts, t.index) =>
                /\ HasIndex(last.cumulative_df, t.index)
                /\ RowAt(last.cumulative_df, t.index).total >= t.total
                /\ RowAt(last.cumulative_df, t.index).unique >= t.unique

C1_Stored ==
    [][(metric \in SeriesMetrics /\ cumfile.status = "csv" /\ cumfile'.status = "csv")
            => NotBelow(cumfile.rows, cumfile'.rows)]_vars

\* C1: on the merge path, every date of the prior cumulative table that is also in
\* the new aggregate has, in the returned table, a total and a unique at least the
\* prior ones; and from one stored cumulative file to the next no date's total or
\* unique decreases.
C1_CumulativeMonotone == []C1_PerCall /\ C1_Stored

\* a merge in which a date has traffic both in the prior table and in the new aggregate
C1_Witness ==
    /\ SeriesDone /\ Merged
    /\ \E i \in 1..Len(last.prior.rows) :
        /\ last.prior.rows[i].total > 0
        /\ InCounts(last.counts, last.prior.rows[i].index)
        /\ CountsAt(last.counts, last.prior.rows[i].index).total > 0
    /\ cumfile = Csv(SeriesColumns(metric), last.cumulative_df)

UniqueKeys(rows, key) ==
    \A i, j \in 1..Len(rows) : i # j => rows[i][key] # rows[j][key]
SortedDesc(rows) ==
    \A i, j \in 1..Len(rows) : i < j =>
        /\ ~IsNaN(rows[i]["count"]) /\ ~IsNaN(rows[j]["count"])
        /\ rows[i]["count"][1] >= rows[j]["count"][1]
InBody(body, key, cell) == \E i \in 1..Len(body) : <<body[i][key]>> = cell
LastInBody(body, key, cell) ==
    body[CHOOSE i \in 1..Len(body) :
            /\ <<body[i][key]>> = cell
            /\ \A j \in (i + 1)..Len(body) : <<body[j][key]>> # cell]

\* C2: when the prior ranked table and the new fetch both hold key K, the persisted
\* table has exactly one row for K, with the new fetch's count and uniques; every
\* prior key absent from the new fetch is still there with its prior values; and the
\* rows are in descending order of count.
C2_RankedDedup ==
    (RankedDone /\ Merged) =>
        LET key == KeyColumn(metric)
            old == last.prior.rows
            out == cumfile.rows
        IN /\ \A i \in 1..Len(old) :
                (~IsNaN(old[i][key]) /\ InBody(last.body, key, old[i][key])) =>
                    /\ Cardinality({j \in 1..Len(out) : out[j][key] = old[i][key]}) = 1
                    /\ \A j \in 1..Len(out) : out[j][key] = old[i][key] =>
                        /\ out[j]["count"] = <<LastInBody(last.body, key, old[i][key]).count>>
                        /\ out[j]["uniques"] = <<LastInBody(last.body, key, old[i][key]).uniques>>
           /\ \A i \in 1..Len(old) :
                (~IsNaN(old[i][key]) /\ ~InBody(last.body, key, old[i][key])) =>
                    \E j \in 1..Len(out) :
                        /\ out[j][key] = old[i][key]
                        /\ out[j]["count"] = old[i]["count"]
                        /\ out[j]["uniques"] = old[i]["uniques"]
           /\ SortedDesc(out)

\* C3: after any sequence of ranked fetches the persisted ranked table has at most
\* one row per key and its rows are in descending order of count.
C3_RankedInvariant ==
    (metric \in RankedMetrics /\ cumfile.status = "csv") =>
        /\ UniqueKeys(cumfile.rows, KeyColumn(metric))
        /\ SortedDesc(cumfile.rows)

\* C4: running the ranked reconciler on a persisted ranked table with an empty new
\* fetch gives back that table: same columns, same rows, same order.
C4_RankedRoundTrip ==
    (RankedDone /\ Merged /\ last.body = <<>>) =>
        /\ last.cumulative_df.cols = last.prior.cols
        /\ last.cumulative_df.rows = last.prior.rows
        /\ cumfile = last.prior

\* C5: merging an aggregate into a cumulative table, storing the result and merging
\* the same aggregate again gives a gap-free table with the values of the first merge.
C5_MergeIdempotent ==
    (/\ prev.valid /\ prev.prior.status = "csv"
     /\ SeriesDone
     /\ last.prior = Csv(SeriesColumns(metric), prev.cumulative_df)
     /\ last.counts = prev.counts) =>
        /\ \A k \in 1..Len(last.cumulative_df) :
                last.cumulative_df[k].index = last.cumulative_df[1].index + k - 1
        /\ last.cumulative_df = prev.cumulative_df

\* C6: for events within the last 14 days the snapshot has exactly 14 rows, one per
\* date from today-13 to today in ascending order, each carrying the sums of that
\* date's events' count and uniques, 0 and 0 for a date without events.
C6_SnapshotDense ==
    (SeriesDone /\ InWindow(last.body, last.now)) =>
        /\ snapfile.status = "csv"
        /\ Len(snapfile.rows) = 14
        /\ \A k \in 1..Len(snapfile.rows) :
            /\ snapfile.rows[k].index = last.now - 13 + (k - 1)
            /\ snapfile.rows[k].total = CountOn(last.body, snapfile.rows[k].index)
            /\ snapfile.rows[k].unique = UniquesOn(last.body, snapfile.rows[k].index)

\* a snapshot of a fetch with two events on one date
C6_Witness ==
    /\ SeriesDone /\ InWindow(last.body, last.now)
    /\ \E i, j \in 1..Len(last.body) :
        i # j /\ DateOf(last.body[i].timestamp) = DateOf(last.body[j].timestamp)
    /\ \E k \in 1..Len(snapfile.rows) : snapfile.rows[k].total = 4

\* C7: with a missing or unparseable prior file, a fetch that got its response raises
\* nothing, and its cumulative table holds the newly fetched data and nothing else.
C7_FirstRunFallback ==
    (last.op # "none" /\ last.ok /\ last.prior.status # "csv") =>
        /\ ~last.raised
        /\ IF metric \in SeriesMetrics
           THEN /\ Len(last.cumulative_df) = 14
                /\ \A k \in 1..Len(last.cumulative_df) :
                    LET r == last.cumulative_df[k]
                    IN /\ r.index = last.now - 13 + (k - 1)
                       /\ r.total = CountOn(last.body, r.index)
                       /\ r.unique = UniquesOn(last.body, r.index)
           ELSE /\ last.cumulative_df.cols = Columns(metric)
                /\ Len(last.cumulative_df.rows) = Len(last.body)
                /\ \A i \in 1..Len(last.body) :
                    \A c \in Range(Columns(metric)) :
                        last.cumulative_df.rows[i][c] = <<last.body[i][c]>>
                /\ cumfile = Csv(last.cumulative_df.cols, last.cumulative_df.rows)

\* a fetch with data that found an unparseable cumulative file
C7_Witness ==
    /\ last.op \in {"get_views", "get_clones"}
    /\ last.ok /\ last.prior.status = "corrupt" /\ last.body # <<>>
    /\ ~last.raised

\* C8: the returned cumulative table has one row for every date from its first to its
\* last, in ascending order, and a date that is in neither the prior table nor the
\* new aggregate has total 0 and unique 0.
C8_CumulativeDense ==
    SeriesDone =>
        LET df == last.cumulative_df
        IN /\ Len(df) >= 1
           /\ \A k \in 1..Len(df) : df[k].index = df[1].index + k - 1
           /\ \A k \in 1..Len(df) :
                (/\ ~InCounts(last.counts, df[k].index)
                 /\ ~(Merged /\ HasIndex(last.prior.rows, df[k].index))) =>
                    df[k].total = 0 /\ df[k].unique = 0

\* a merge whose result has a date that neither the prior table nor the aggregate has
C8_Witness ==
    /\ SeriesDone /\ Merged
    /\ \E k \in 1..Len(last.cumulative_df) :
        /\ ~InCounts(last.counts, last.cumulative_df[k].index)
        /\ ~HasIndex(last.prior.rows, last.cumulative_df[k].index)

DictKeys(d) == {d[i].key : i \in 1..Len(d)}

\* C9: in _merge_dict(old, new) a key only in old keeps old's row, a key only in new
\* gets new's row, a key in both keeps old's row when old.total >= new.total and
\* old.unique >= new.unique and gets new's whole row otherwise, and the result has
\* no other key.
C9_MergeRowRule ==
    md.done =>
        /\ DictKeys(md.out) = DictKeys(md.old) \cup DictKeys(md.new)
        /\ Len(md.out) = Cardinality(DictKeys(md.out))
        /\ \A k \in DictKeys(md.out) :
            DictGet(md.out, k) =
                IF ~DictHas(md.new, k) THEN DictGet(md.old, k)
                ELSE IF ~DictHas(md.old, k) THEN DictGet(md.new, k)
                ELSE IF /\ DictGet(md.old, k).total >= DictGet(md.new, k).total
                        /\ DictGet(md.old, k).unique >= DictGet(md.new, k).unique
                     THEN DictGet(md.old, k)
                     ELSE DictGet(md.new, k)

\* a merge in which a key of both dicts has a larger total but a smaller unique in new
C9_Witness ==
    /\ md.done
    /\ \E k \in DictKeys(md.old) \cap DictKeys(md.new) :
        /\ DictGet(md.new, k).total > DictGet(md.old, k).total
        /\ DictGet(md.new, k).unique < DictGet(md.old, k).unique
        /\ DictGet(md.out, k) = DictGet(md.new, k)

\* C10: when the request of a get_* call fails, the call raises and leaves both the
\* metric's snapshot file and its cumulative file as they were.
C10_FailedFetchWritesNothing ==
    (last.op # "none" /\ ~last.ok) =>
        /\ last.raised
        /\ pc = "idle"
        /\ cumfile = last.prior
        /\ snapfile = last.snap_before

\* a failed fetch after an earlier fetch has written both files
C10_Witness ==
    /\ last.op # "none" /\ ~last.ok /\ last.raised
    /\ cumfile.status = "csv" /\ snapfile.status = "csv"
    /\ cumfile = last.prior /\ snapfile = last.snap_before

====
